---- MODULE Spec2Model ----
(***************************************************************************)
(* Norwegian form fields of localflavor/no/forms.py: zip code, national    *)
(* identity number (NOSocialSecurityNumber), phone number, bank account    *)
(* number and organisation number.                                         *)
(*                                                                         *)
(* A string is a sequence of one-character strings.  The file is Python 2  *)
(* code (line 135 slices the result of map), so map() yields a list.       *)
(***************************************************************************)
EXTENDS Integers, Sequences, FiniteSets

VARIABLES
    birthday,   \* NOSocialSecurityNumber instance attribute self.birthday
    gender,     \* NOSocialSecurityNumber instance attribute self.gender
    call,       \* the last completed clean() call: field, input, outcome
    ncalls,     \* number of completed calls
    arg,        \* the input handed to a single-call run
    pc,         \* per thread: position inside NOSocialSecurityNumber.clean
    targ,       \* per thread: the value argument of its clean() call
    obs         \* per thread: what the caller read from the field afterwards

vars == <<birthday, gender, call, ncalls, arg, pc, targ, obs>>

----------------------------------------------------------------------------
(* Characters and conversions *)

DigitChars == <<"0", "1", "2", "3", "4", "5", "6", "7", "8", "9">>

Digit == {DigitChars[i] : i \in 1..Len(DigitChars)}

\* \s of the re module, within the modelled alphabet
Whitespace == {" ", "\t", "\n"}

\* int() of one digit character
DigitVal(c) == (CHOOSE i \in 1..Len(DigitChars) : DigitChars[i] = c) - 1

\* int() of a string of digits
RECURSIVE IntOf(_)
IntOf(s) ==
    IF s = <<>> THEN 0
    ELSE 10 * IntOf(SubSeq(s, 1, Len(s) - 1)) + DigitVal(s[Len(s)])

\* Python slice value[a:b] (0-based, end exclusive, clipped to the string)
Slice(s, a, b) ==
    LET hi == IF b > Len(s) THEN Len(s) ELSE b
    IN  IF a >= hi THEN <<>> ELSE SubSeq(s, a + 1, hi)

AllDigits(s) == \A i \in 1..Len(s) : s[i] \in Digit

\* map(int, list(s))
MapInt(s) == [i \in 1..Len(s) |-> DigitVal(s[i])]

Reverse(s) == [i \in 1..Len(s) |-> s[Len(s) + 1 - i]]

Min(a, b) == IF a < b THEN a ELSE b

\* sum([(a * b) for (a, b) in zip(aval, bval)]); zip stops at the shorter one
RECURSIVE SumProducts(_, _, _)
SumProducts(aval, bval, n) ==
    IF n = 0 THEN 0
    ELSE aval[n] * bval[n] + SumProducts(aval, bval, n - 1)

multiply_reduce(aval, bval) == SumProducts(aval, bval, Min(Len(aval), Len(bval)))

----------------------------------------------------------------------------
(* Regular expressions, as sets of positions reached in the string *)

\* one character of class C
Step(s, P, C) == {p + 1 : p \in {q \in P : q <= Len(s) /\ s[q] \in C}}

\* an optional character of class C
Opt(s, P, C) == P \cup Step(s, P, C)

RECURSIVE Rep(_, _, _, _)
\* exactly n characters of class C
Rep(s, P, C, n) == IF n = 0 THEN P ELSE Rep(s, Step(s, P, C), C, n - 1)

\* $ : the end of the string, or just before a trailing newline
AtEnd(s, P) ==
    \/ Len(s) + 1 \in P
    \/ Len(s) \in P /\ Len(s) >= 1 /\ s[Len(s)] = "\n"

----------------------------------------------------------------------------
(* datetime.date *)

IsLeap(y) == y % 4 = 0 /\ (y % 100 # 0 \/ y % 400 = 0)

DaysInMonth(y, m) ==
    IF m = 2 THEN (IF IsLeap(y) THEN 29 ELSE 28)
    ELSE IF m \in {4, 6, 9, 11} THEN 30 ELSE 31

\* datetime.date(y, m, d) raises ValueError unless this holds
IsDate(y, m, d) ==
    /\ y >= 1 /\ y <= 9999
    /\ m >= 1 /\ m <= 12
    /\ d >= 1 /\ d <= DaysInMonth(y, m)

Date(y, m, d) == [kind |-> "date", year |-> y, month |-> m, day |-> d]

\* self.birthday = None
None == [kind |-> "None", year |-> 0, month |-> 0, day |-> 0]

\* the attribute has never been assigned on this instance
Unset == [kind |-> "unset", year |-> 0, month |-> 0, day |-> 0]

----------------------------------------------------------------------------
(* NOSocialSecurityNumber.clean *)

\* value in EMPTY_VALUES; the field is optional (required=False), so that the
\* base class's clean() of line 50 lets the empty value through to line 51
NIDEmpty(value) == value = <<>>

\* re.match(r'^\d{11}$', value)
NIDFormatOK(value) == AtEnd(value, Rep(value, {1}, Digit, 11))

NIDDay(value) == IntOf(Slice(value, 0, 2))
NIDMonth(value) == IntOf(Slice(value, 2, 4))
NIDYear2(value) == IntOf(Slice(value, 4, 6))
NIDInum(value) == IntOf(Slice(value, 6, 9))

NumRules == 4

\* the condition of the k-th `if` of the try block
RuleMatchesOverlap(k, inum, year2) ==
    CASE k = 1 -> 0 <= inum /\ inum < 500
      [] k = 2 -> 500 <= inum /\ inum < 750 /\ year2 > 54
      [] k = 3 -> 500 <= inum /\ inum < 1000 /\ year2 < 60
      [] OTHER -> 900 <= inum /\ inum < 1000 /\ year2 > 39

RuleMatches(k, inum, year2) ==
    CASE k = 1 -> 0 <= inum /\ inum < 500
      [] k = 2 -> 500 <= inum /\ inum < 750 /\ year2 > 54
      [] k = 3 -> 500 <= inum /\ inum < 1000 /\ year2 < 40
      [] OTHER -> 900 <= inum /\ inum < 1000 /\ year2 > 39

\* the century the k-th `if` adds to year2
RuleCentury(k) ==
    CASE k = 1 -> 1900
      [] k = 2 -> 1800
      [] k = 3 -> 2000
      [] OTHER -> 1900

\* the k-th `if` of the try block, self.birthday being cur before it
TryRule(k, value, cur) ==
    LET y == RuleCentury(k) + NIDYear2(value)
        m == NIDMonth(value)
        d == NIDDay(value)
    IN  IF RuleMatches(k, NIDInum(value), NIDYear2(value))
        THEN IF IsDate(y, m, d)
             THEN [raised |-> FALSE, birthday |-> Date(y, m, d)]
             ELSE [raised |-> TRUE, birthday |-> cur]
        ELSE [raised |-> FALSE, birthday |-> cur]

RECURSIVE TryRules(_, _, _)
\* the `if`s k..4 of the try block in sequence; a ValueError leaves the block
TryRules(k, value, cur) ==
    IF k > NumRules THEN [raised |-> FALSE, birthday |-> cur]
    ELSE LET r == TryRule(k, value, cur)
         IN  IF r.raised THEN r ELSE TryRules(k + 1, value, r.birthday)

\* lines 75-79
GenderOf(value) == IF DigitVal(value[9]) % 2 = 0 THEN "F" ELSE "M"

weight_1 == <<3, 7, 6, 1, 8, 9, 4, 5, 2, 1, 0>>
weight_2 == <<5, 4, 3, 2, 7, 6, 5, 4, 3, 2, 1>>

\* digits = map(int, list(value)) raises ValueError on a non-digit
NIDDigitsRaise(value) == ~AllDigits(value)

\* the second sum read from an exhausted iterator: the check always passes
NIDChecksumsExhausted(value) ==
    multiply_reduce(MapInt(value), weight_1) % 11 = 0

\* lines 88-91: neither checksum test raises
NIDChecksums(value) ==
    /\ multiply_reduce(MapInt(value), weight_1) % 11 = 0
    /\ multiply_reduce(MapInt(value), weight_2) % 11 = 0

Outcome(r, c) == [result |-> r, cleaned |-> c]

\* clean(value) on an instance whose attributes are bd and g: the outcome and
\* the attributes it leaves
NOSocialSecurityNumber_clean(value, bd, g) ==
    IF NIDEmpty(value)
    THEN [out |-> Outcome("valid", <<>>), birthday |-> bd, gender |-> g]
    ELSE IF ~NIDFormatOK(value)
    THEN [out |-> Outcome("invalid", <<>>), birthday |-> bd, gender |-> g]
    ELSE LET t == TryRules(1, value, None)
         IN  IF t.raised
             THEN [out |-> Outcome("invalid", <<>>),
                   birthday |-> t.birthday, gender |-> g]
             ELSE IF NIDDigitsRaise(value)
             THEN [out |-> Outcome("error", <<>>),
                   birthday |-> t.birthday, gender |-> GenderOf(value)]
             ELSE IF ~NIDChecksums(value)
             THEN [out |-> Outcome("invalid", <<>>),
                   birthday |-> t.birthday, gender |-> GenderOf(value)]
             ELSE [out |-> Outcome("valid", value),
                   birthday |-> t.birthday, gender |-> GenderOf(value)]

----------------------------------------------------------------------------
(* RegexField.clean of the base class, called by every clean(): to_python,  *)
(* then the validators; the regex is searched in the converted value and   *)
(* max_length, where given, bounds the converted value                     *)

\* the regex and max_length validators on the value to_python returned
Validators(matches, value, max_length) ==
    matches /\ Len(value) <= max_length

----------------------------------------------------------------------------
(* NOZipCodeField *)

\* r'^\d{4}$'
ZipRegex(value) == AtEnd(value, Rep(value, {1}, Digit, 4))

NOZipCodeField_clean(value) ==
    IF ZipRegex(value)
    THEN Outcome("valid", value)
    ELSE Outcome("invalid", <<>>)

----------------------------------------------------------------------------
(* NOPhoneNumberField *)

\* (?:\+47)? ?
PhonePrefix(value) ==
    LET plus == Step(value, Step(value, Step(value, {1}, {"+"}), {"4"}), {"7"})
    IN  Opt(value, {1} \cup plus, {" "})

\* \d{3}\s?\d{2}\s?\d{3}
PhoneGrouped323(value, P) ==
    LET a == Opt(value, Rep(value, P, Digit, 3), Whitespace)
        b == Opt(value, Rep(value, a, Digit, 2), Whitespace)
    IN  Rep(value, b, Digit, 3)

\* \d{2}\s?\d{2}\s?\d{2}\s?\d{2}
PhoneGrouped2222(value, P) ==
    LET a == Opt(value, Rep(value, P, Digit, 2), Whitespace)
        b == Opt(value, Rep(value, a, Digit, 2), Whitespace)
        c == Opt(value, Rep(value, b, Digit, 2), Whitespace)
    IN  Rep(value, c, Digit, 2)

\* r'^(?:\+47)? ?(\d{3}\s?\d{2}\s?\d{3}|\d{2}\s?\d{2}\s?\d{2}\s?\d{2})$'
PhoneRegex(value) ==
    LET P == PhonePrefix(value)
    IN  AtEnd(value, PhoneGrouped323(value, P) \cup PhoneGrouped2222(value, P))

NOPhoneNumberField_clean(value) ==
    IF PhoneRegex(value)
    THEN Outcome("valid", value)
    ELSE Outcome("invalid", <<>>)

----------------------------------------------------------------------------
(* NOBankAccountField *)

BankSeparators == {".", " "}

\* r'^(\d{4})[\. ]?(\d{2})[\. ]?(\d{5})$'
BankRegex(value) ==
    LET a == Opt(value, Rep(value, {1}, Digit, 4), BankSeparators)
        b == Opt(value, Rep(value, a, Digit, 2), BankSeparators)
    IN  AtEnd(value, Rep(value, b, Digit, 5))

BankMaxLength == 13

\* value.replace('.', '').replace(' ', '')
NOBankAccountField_to_python(value) ==
    SelectSeq(value, LAMBDA c : c \notin BankSeparators)

BankWeights == <<2, 3, 4, 5, 6, 7, 2, 3, 4, 5>>

\* the calculated checksum without the 11 -> 0 rule
BankChecksumNoFold(value) ==
    LET digits == Reverse(MapInt(Slice(value, 0, 10)))
    IN  11 - (multiply_reduce(digits, BankWeights) % 11)

\* lines 135-139: calculated_checksum
BankChecksum(value) ==
    LET digits == Reverse(MapInt(Slice(value, 0, 10)))
        calculated_checksum == 11 - (multiply_reduce(digits, BankWeights) % 11)
    IN  IF calculated_checksum = 11 THEN 0 ELSE calculated_checksum

NOBankAccountField_clean(raw) ==
    LET value == NOBankAccountField_to_python(raw)
    IN  IF ~Validators(BankRegex(value), value, BankMaxLength)
        THEN Outcome("invalid", <<>>)
        ELSE IF value[Len(value)] \notin Digit
        THEN Outcome("error", <<>>)          \* int(value[-1]) raises ValueError
        ELSE IF BankChecksum(value) # DigitVal(value[Len(value)])
        THEN Outcome("invalid", <<>>)
        ELSE Outcome("valid", value)

----------------------------------------------------------------------------
(* NOOrganisationNumberField *)

\* one character of the literal, re.IGNORECASE
Letter(c) ==
    CASE c = "N" -> {"N", "n"}
      [] c = "O" -> {"O", "o"}
      [] c = "M" -> {"M", "m"}
      [] c = "V" -> {"V", "v"}
      [] c = "A" -> {"A", "a"}
      [] OTHER -> {c}

\* (NO )?
OrgPrefix(value) ==
    {1} \cup Step(value, Step(value, Step(value, {1}, Letter("N")),
                              Letter("O")), {" "})

\* ( MVA)?
OrgSuffix(value, P) ==
    P \cup Step(value, Step(value, Step(value, Step(value, P, {" "}),
                                        Letter("M")), Letter("V")), Letter("A"))

\* r'^(NO )?(\d{3}) ?(\d{3}) ?(\d{3})( MVA)?$', re.IGNORECASE
OrgRegex(value) ==
    LET a == Opt(value, Rep(value, OrgPrefix(value), Digit, 3), {" "})
        b == Opt(value, Rep(value, a, Digit, 3), {" "})
    IN  AtEnd(value, OrgSuffix(value, Rep(value, b, Digit, 3)))

\* match.groups() of a matching value, None written as the empty string:
\* <<prefix, digits, digits, digits, suffix>>
OrgGroups(value) ==
    LET g1 == IF value[1] \in Digit THEN <<>> ELSE SubSeq(value, 1, 3)
        s2 == Len(g1) + 1
        s3 == IF value[s2 + 3] = " " THEN s2 + 4 ELSE s2 + 3
        s4 == IF value[s3 + 3] = " " THEN s3 + 4 ELSE s3 + 3
        e == s4 + 3
        g5 == IF e <= Len(value) /\ value[e] = " "
              THEN SubSeq(value, e, e + 3) ELSE <<>>
    IN  <<g1, SubSeq(value, s2, s2 + 2), SubSeq(value, s3, s3 + 2),
          SubSeq(value, s4, s4 + 2), g5>>

\* ''.join(match.groups()[1:4])
OrgNumber(value) ==
    LET groups == OrgGroups(value)
    IN  groups[2] \o groups[3] \o groups[4]

\* the input is returned as typed
NOOrganisationNumberField_to_python_asis(value) == value

NOOrganisationNumberField_to_python(value) ==
    IF OrgRegex(value)
    THEN LET groups == OrgGroups(value)
         IN  groups[1] \o OrgNumber(value) \o groups[5]
    ELSE value

OrgMaxLength == 18

OrgWeights == <<3, 2, 7, 6, 5, 4, 3, 2>>

\* 11 is folded to 0 as for bank accounts
OrgChecksumFolded(number) ==
    (11 - (multiply_reduce(MapInt(Slice(number, 0, 8)), OrgWeights) % 11)) % 11

\* lines 170-172: calculated_checksum
OrgChecksum(number) ==
    11 - (multiply_reduce(MapInt(Slice(number, 0, 8)), OrgWeights) % 11)

NOOrganisationNumberField_clean(raw) ==
    LET value == NOOrganisationNumberField_to_python(raw)
    IN  IF ~Validators(OrgRegex(value), value, OrgMaxLength)
        THEN Outcome("invalid", <<>>)
        ELSE LET number == OrgNumber(value)
                 checksum == DigitVal(number[Len(number)])
                 calculated_checksum == OrgChecksum(number)
             IN  IF calculated_checksum = 10 \/ calculated_checksum # checksum
                 THEN Outcome("invalid", <<>>)
                 ELSE Outcome("valid", value)

----------------------------------------------------------------------------
(* Inputs *)

\* trailing digit positions enumerated exhaustively in the single-call runs
FreeDigits == 3

\* calls made on the fields in a sequential run
MaxCalls == 3

\* threads sharing one NOSocialSecurityNumber instance
NumThreads == 2

Threads == 1..NumThreads

\* every way to fill the last FreeDigits positions of the samples of S
Completions(S) ==
    {SubSeq(s, 1, Len(s) - FreeDigits) \o f :
        s \in S, f \in [1..FreeDigits -> Digit]}

NIDGood1970 == <<"0", "1", "0", "1", "7", "0", "1", "0", "1", "7", "0">>
NIDGood2000 == <<"2", "9", "0", "2", "0", "0", "5", "0", "0", "8", "8">>
NIDGood1945 == <<"1", "5", "0", "7", "4", "5", "9", "9", "0", "0", "0">>
NIDGood1860 == <<"0", "1", "0", "1", "6", "0", "6", "0", "0", "0", "0">>
NIDFeb1900 == <<"2", "9", "0", "2", "0", "0", "1", "0", "0", "0", "0">>
NIDNoDate == <<"3", "2", "1", "3", "7", "0", "1", "0", "1", "7", "0">>
NIDNoDateGap == <<"3", "2", "1", "3", "4", "5", "6", "0", "1", "8", "4">>
NIDGap == <<"0", "1", "0", "1", "4", "5", "6", "0", "0", "1", "3">>
NIDGapHigh == <<"3", "1", "1", "2", "9", "9", "8", "0", "0", "0", "4">>
NIDBadSum == <<"0", "1", "0", "1", "7", "0", "1", "0", "1", "7", "1">>

NIDSamples ==
    {NIDGood1970, NIDGood2000, NIDGood1945, NIDGood1860, NIDFeb1900,
     NIDNoDate, NIDNoDateGap, NIDGap, NIDGapHigh}

\* inputs that are not 11 digits
NIDMalformed ==
    {<<>>,
     SubSeq(NIDGood1970, 1, 10),
     SubSeq(NIDGood1970, 1, 10) \o <<"A">>,
     NIDGood1970 \o <<"0">>,
     NIDGood1970 \o <<"\n">>}

\* day and month digits tried with every year2 and every individual number
DayMonths ==
    {<<"0", "1", "0", "1">>, <<"2", "9", "0", "2">>, <<"3", "1", "0", "4">>}

\* inputs of the sequential runs
NIDInputs ==
    NIDMalformed \cup
    {NIDGood1970, NIDGood2000, NIDNoDate, NIDNoDateGap, NIDGap, NIDBadSum}

\* inputs of the concurrent runs
ThreadValues == {NIDGood1970, NIDGood2000, NIDNoDate, NIDBadSum}

\* text with the separators of layout (each after a position) put in
RECURSIVE InsertAll(_, _)
InsertAll(s, layout) ==
    IF layout = <<>> THEN s
    ELSE LET e == layout[Len(layout)]
         IN  InsertAll(SubSeq(s, 1, e.after) \o e.sep
                           \o SubSeq(s, e.after + 1, Len(s)),
                       SubSeq(layout, 1, Len(layout) - 1))

Sep(n, text) == [after |-> n, sep |-> text]

BankSamples ==
    {<<"8", "6", "0", "1", "1", "1", "1", "7", "9", "4", "7">>,
     <<"1", "2", "3", "4", "5", "6", "7", "8", "9", "0", "3">>}

\* how the eleven digits of an account number are typed
BankLayouts ==
    {<<>>,
     <<Sep(4, <<".">>), Sep(6, <<".">>)>>,
     <<Sep(4, <<" ">>), Sep(6, <<" ">>)>>,
     <<Sep(4, <<".">>), Sep(6, <<" ">>)>>,
     <<Sep(2, <<".">>), Sep(6, <<".">>)>>,
     <<Sep(4, <<" ">>), Sep(6, <<" ">>), Sep(9, <<" ">>)>>,
     <<Sep(4, <<".", " ">>), Sep(6, <<" ">>)>>,
     <<Sep(0, <<" ">>), Sep(4, <<" ">>), Sep(6, <<" ">>), Sep(11, <<" ">>)>>,
     <<Sep(4, <<"-">>), Sep(6, <<"-">>)>>,
     <<Sep(6, <<"0">>)>>,
     <<Sep(11, <<"\n">>)>>}

OrgSamples ==
    {<<"9", "7", "4", "7", "6", "0", "6", "7", "3">>,
     <<"1", "2", "3", "4", "5", "6", "7", "8", "5">>}

\* how the nine digits of an organisation number are typed
OrgLayouts ==
    {<<>>,
     <<Sep(3, <<" ">>), Sep(6, <<" ">>)>>,
     <<Sep(0, <<"N", "O", " ">>), Sep(3, <<" ">>), Sep(6, <<" ">>),
       Sep(9, <<" ", "M", "V", "A">>)>>,
     <<Sep(0, <<"n", "o", " ">>), Sep(9, <<" ", "m", "v", "a">>)>>,
     <<Sep(0, <<"N", "o", " ">>), Sep(6, <<" ">>)>>,
     <<Sep(3, <<" ">>), Sep(9, <<" ", "M", "v", "a">>)>>,
     <<Sep(0, <<"N", "O">>)>>,
     <<Sep(9, <<"M", "V", "A">>)>>,
     <<Sep(3, <<" ", " ">>)>>,
     <<Sep(3, <<".">>), Sep(6, <<".">>)>>,
     <<Sep(9, <<"0">>)>>,
     <<Sep(9, <<"\n">>)>>}

\* bank account inputs of the sequential runs
BankInputs ==
    {<<"8", "6", "0", "1", "1", "1", "1", "7", "9", "4", "7">>,
     <<"8", "6", "0", "1", ".", "1", "1", ".", "1", "7", "9", "4", "7">>,
     <<"8", "6", "0", "1", " ", "1", "1", " ", "1", "7", "9", "4", "7">>,
     <<"8", "6", "0", "1", " ", "1", "1", " ", "1", "7", "9", " ", "4", "7">>,
     <<"8", "6", " ", "0", "1", " ", "1", "1", " ", "1", "7", " ", "9", "4", " ", "7">>,
     <<"8", "6", "0", "1", "1", "1", "1", "7", "9", "4", "8">>,
     <<"8", "6", "0", "1", "1", "1", "1", "7", "1", "3", "0">>,
     <<"8", "6", "0", "1", "1", "1", "1", "7", "9", "4", "7", "\n">>,
     <<"8", "6", "0", "1", "1", "1", "1", "7", "9", "4", "7", "0">>,
     <<"8", "6", "0", "1", "-", "1", "1", "-", "1", "7", "9", "4", "7">>}

\* organisation number inputs of the sequential runs
OrgInputs ==
    {<<"9", "7", "4", "7", "6", "0", "6", "7", "3">>,
     <<"9", "7", "4", " ", "7", "6", "0", " ", "6", "7", "3">>,
     <<"N", "O", " ", "9", "7", "4", " ", "7", "6", "0", " ", "6", "7", "3", " ", "M", "V", "A">>,
     <<"n", "o", " ", "9", "7", "4", "7", "6", "0", "6", "7", "3", " ", "m", "v", "a">>,
     <<"N", "O", "9", "7", "4", "7", "6", "0", "6", "7", "3">>,
     <<"9", "7", "4", "7", "6", "0", "6", "7", "3", "\n">>,
     <<"9", "7", "4", "7", "6", "0", "6", "7", "4">>,
     <<"9", "7", "4", "7", "6", "0", "6", "7", "3", "M", "V", "A">>}

\* zip code inputs
ZipInputs ==
    {<<"0", "1", "5", "0">>,
     <<"0", "1", "5">>,
     <<"0", "1", "5", "0", "0">>,
     <<"0", "1", "5", "A">>,
     <<"0", "1", "5", "0", "\n">>}

\* phone number inputs
PhoneInputs ==
    {<<"1", "2", "3", "4", "5", "6", "7", "8">>,
     <<"1", "2", "3", " ", "4", "5", " ", "6", "7", "8">>,
     <<"1", "2", " ", "3", "4", " ", "5", "6", " ", "7", "8">>,
     <<"+", "4", "7", " ", "1", "2", "3", " ", "4", "5", " ", "6", "7", "8">>,
     <<"+", "4", "7", "1", "2", "3", "4", "5", "6", "7", "8">>,
     <<" ", "1", "2", "3", "4", "5", "6", "7", "8">>,
     <<"1", "2", "3", "\t", "4", "5", "\t", "6", "7", "8">>,
     <<"1", "2", "3", "4", "5", "6", "7">>,
     <<"1", "2", "3", "4", "5", "6", "7", "8", "9">>,
     <<"+", "4", "6", " ", "1", "2", "3", "4", "5", "6", "7", "8">>,
     <<"1", "2", "3", "4", " ", "5", "6", "7", "8">>,
     <<"1", "2", "3", "4", "5", "6", "7", "8", "\n">>}

----------------------------------------------------------------------------
(* State *)

NoCall == [field |-> "none", value |-> <<>>, result |-> "none", cleaned |-> <<>>]

NoArg == [field |-> "none", value |-> <<>>]

NoObs == [result |-> "none", birthday |-> Unset, gender |-> "unset"]

\* a field instance right after construction, nothing called yet
Fresh ==
    /\ birthday = Unset
    /\ gender = "unset"
    /\ call = NoCall
    /\ ncalls = 0

NoThreads ==
    /\ pc = [t \in Threads |-> "idle"]
    /\ targ = [t \in Threads |-> <<>>]
    /\ obs = [t \in Threads |-> NoObs]

thread_vars == <<pc, targ, obs>>

----------------------------------------------------------------------------
(* Calls *)

\* field.clean(value) on the NOSocialSecurityNumber instance
NIDClean(value) ==
    LET r == NOSocialSecurityNumber_clean(value, birthday, gender)
    IN  /\ birthday' = r.birthday
        /\ gender' = r.gender
        /\ call' = [field |-> "nid", value |-> value,
                    result |-> r.out.result, cleaned |-> r.out.cleaned]
        /\ ncalls' = ncalls + 1

\* a call on one of the stateless fields
FieldClean(name, raw, out) ==
    /\ call' = [field |-> name, value |-> raw,
                result |-> out.result, cleaned |-> out.cleaned]
    /\ ncalls' = ncalls + 1
    /\ UNCHANGED <<birthday, gender>>

ZipClean(raw) == FieldClean("zip", raw, NOZipCodeField_clean(raw))

PhoneClean(raw) == FieldClean("phone", raw, NOPhoneNumberField_clean(raw))

BankClean(raw) == FieldClean("bank", raw, NOBankAccountField_clean(raw))

OrgClean(raw) == FieldClean("org", raw, NOOrganisationNumberField_clean(raw))

----------------------------------------------------------------------------
(* Sequential runs: up to MaxCalls calls, any field, any of its inputs *)

Init ==
    /\ Fresh
    /\ NoThreads
    /\ arg = NoArg

CallNID ==
    /\ ncalls < MaxCalls
    /\ \E value \in NIDInputs : NIDClean(value)
    /\ UNCHANGED <<arg, thread_vars>>

CallZip ==
    /\ ncalls < MaxCalls
    /\ \E raw \in ZipInputs : ZipClean(raw)
    /\ UNCHANGED <<arg, thread_vars>>

CallPhone ==
    /\ ncalls < MaxCalls
    /\ \E raw \in PhoneInputs : PhoneClean(raw)
    /\ UNCHANGED <<arg, thread_vars>>

CallBank ==
    /\ ncalls < MaxCalls
    /\ \E raw \in BankInputs : BankClean(raw)
    /\ UNCHANGED <<arg, thread_vars>>

CallOrg ==
    /\ ncalls < MaxCalls
    /\ \E raw \in OrgInputs : OrgClean(raw)
    /\ UNCHANGED <<arg, thread_vars>>

Next ==
    \/ CallNID
    \/ CallZip
    \/ CallPhone
    \/ CallBank
    \/ CallOrg

Spec == Init /\ [][Next]_vars

----------------------------------------------------------------------------
(* Single-call runs: one call on a fresh field, the input drawn by Init *)

NIDCleanArg ==
    /\ arg.field = "nid"
    /\ NIDClean(arg.value)
    /\ arg' = NoArg
    /\ UNCHANGED thread_vars

BankCleanArg ==
    /\ arg.field = "bank"
    /\ BankClean(arg.value)
    /\ arg' = NoArg
    /\ UNCHANGED thread_vars

OrgCleanArg ==
    /\ arg.field = "org"
    /\ OrgClean(arg.value)
    /\ arg' = NoArg
    /\ UNCHANGED thread_vars

\* the samples with every ending, and the malformed inputs
InitNID ==
    /\ Fresh
    /\ NoThreads
    /\ \E value \in NIDMalformed \cup Completions(NIDSamples) :
          arg = [field |-> "nid", value |-> value]

\* ddmm, then every year2 and every individual number, then check digits 00
InitCentury ==
    /\ Fresh
    /\ NoThreads
    /\ \E dm \in DayMonths, f \in [1..5 -> Digit] :
          arg = [field |-> "nid", value |-> dm \o f \o <<"0", "0">>]

\* the samples with every ending, typed in every layout
InitBank ==
    /\ Fresh
    /\ NoThreads
    /\ \E digits \in Completions(BankSamples), layout \in BankLayouts :
          arg = [field |-> "bank", value |-> InsertAll(digits, layout)]

InitOrg ==
    /\ Fresh
    /\ NoThreads
    /\ \E digits \in Completions(OrgSamples), layout \in OrgLayouts :
          arg = [field |-> "org", value |-> InsertAll(digits, layout)]

NextNID == NIDCleanArg

NextBank == BankCleanArg

NextOrg == OrgCleanArg

\* one clean() call on a fresh NOSocialSecurityNumber
SpecNID == InitNID /\ [][NextNID]_vars

\* one clean() call for every year2 and individual number
SpecCentury == InitCentury /\ [][NextNID]_vars

\* one clean() call on a NOBankAccountField
SpecBank == InitBank /\ [][NextBank]_vars

\* one clean() call on a NOOrganisationNumberField
SpecOrg == InitOrg /\ [][NextOrg]_vars

----------------------------------------------------------------------------
(* Concurrent runs: the threads call clean() on one NOSocialSecurityNumber, *)
(* one statement at a time                                                *)

IfLabels == <<"if1", "if2", "if3", "if4">>

Goto(t, label) == pc' = [pc EXCEPT ![t] = label]

Raise(t, kind) ==
    /\ Goto(t, "raised")
    /\ obs' = [obs EXCEPT ![t].result = kind]

\* lines 51-55
TEnter(t) ==
    /\ pc[t] = "l51"
    /\ IF NIDEmpty(targ[t])
       THEN Goto(t, "returned") /\ UNCHANGED obs
       ELSE IF ~NIDFormatOK(targ[t])
       THEN Raise(t, "invalid")
       ELSE Goto(t, "l62") /\ UNCHANGED obs
    /\ UNCHANGED <<birthday, gender, targ, call, ncalls, arg>>

\* line 62
TReset(t) ==
    /\ pc[t] = "l62"
    /\ birthday' = None
    /\ Goto(t, IfLabels[1])
    /\ UNCHANGED <<gender, targ, obs, call, ncalls, arg>>

\* one `if` of lines 64-71
TRule(t) ==
    \E k \in 1..NumRules :
        /\ pc[t] = IfLabels[k]
        /\ LET r == TryRule(k, targ[t], birthday)
           IN  /\ birthday' = r.birthday
               /\ IF r.raised
                  THEN Raise(t, "invalid")
                  ELSE /\ Goto(t, IF k < NumRules THEN IfLabels[k + 1] ELSE "l75")
                       /\ UNCHANGED obs
        /\ UNCHANGED <<gender, targ, call, ncalls, arg>>

\* lines 75-79
TGender(t) ==
    /\ pc[t] = "l75"
    /\ gender' = GenderOf(targ[t])
    /\ Goto(t, "l81")
    /\ UNCHANGED <<birthday, targ, obs, call, ncalls, arg>>

\* lines 81-93
TChecksum(t) ==
    /\ pc[t] = "l81"
    /\ IF NIDDigitsRaise(targ[t])
       THEN Raise(t, "error")
       ELSE IF ~NIDChecksums(targ[t])
       THEN Raise(t, "invalid")
       ELSE Goto(t, "returned") /\ UNCHANGED obs
    /\ UNCHANGED <<birthday, gender, targ, call, ncalls, arg>>

\* the caller, after clean() returned, reads field.birthday and field.gender
TRead(t) ==
    /\ pc[t] = "returned"
    /\ obs' = [obs EXCEPT ![t] = [result |-> "valid", birthday |-> birthday,
                                  gender |-> gender]]
    /\ Goto(t, "done")
    /\ UNCHANGED <<birthday, gender, targ, call, ncalls, arg>>

InitThreads ==
    /\ Fresh
    /\ arg = NoArg
    /\ pc = [t \in Threads |-> "l51"]
    /\ obs = [t \in Threads |-> NoObs]
    /\ targ \in {f \in [Threads -> ThreadValues] :
                    \A t, u \in Threads : t # u => f[t] # f[u]}

NextThreads ==
    \E t \in Threads :
        \/ TEnter(t)
        \/ TReset(t)
        \/ TRule(t)
        \/ TGender(t)
        \/ TChecksum(t)
        \/ TRead(t)

SpecThreads == InitThreads /\ [][NextThreads]_vars

----------------------------------------------------------------------------
(* Properties of NOSocialSecurityNumber.clean *)

\* the last call was clean() of the identity field on eleven digits
NIDCalled ==
    /\ call.field = "nid"
    /\ Len(call.value) = 11
    /\ AllDigits(call.value)

\* the try block of the last call ended without ValueError
DatePassed == ~TryRules(1, call.value, None).raised

WeightedSum(value, w) ==
    LET RECURSIVE Go(_)
        Go(i) == IF i = 0 THEN 0 ELSE DigitVal(value[i]) * w[i] + Go(i - 1)
    IN  Go(11)

Sum1(value) == WeightedSum(value, <<3, 7, 6, 1, 8, 9, 4, 5, 2, 1, 0>>)
Sum2(value) == WeightedSum(value, <<5, 4, 3, 2, 7, 6, 5, 4, 3, 2, 1>>)

\* C1: an 11-digit input that passes the date step is accepted only if both
\* weighted sums over its 11 digits are divisible by 11; with one sum
\* divisible and the other not, it is rejected.
C1_BothChecksums ==
    (NIDCalled /\ DatePassed) =>
        /\ call.result = "valid" =>
               Sum1(call.value) % 11 = 0 /\ Sum2(call.value) % 11 = 0
        /\ (Sum1(call.value) % 11 = 0) # (Sum2(call.value) % 11 = 0) =>
               call.result = "invalid"

\* C1 witness: the first sum is divisible by 11, the second is not, and the
\* input was rejected.
C1_Witness ==
    /\ NIDCalled /\ DatePassed
    /\ Sum1(call.value) % 11 = 0
    /\ Sum2(call.value) % 11 # 0
    /\ call.result = "invalid"

\* day and month digits that are a calendar date in no year the field builds
NoDateAnyYear(value) ==
    \A y \in 1800..2099 : ~IsDate(y, NIDMonth(value), NIDDay(value))

\* C2: an 11-digit input whose day and month digits form a real calendar date
\* in no year is rejected, whatever its year, individual number and check
\* digits.
C2_NoDateRejected ==
    (NIDCalled /\ NoDateAnyYear(call.value)) => call.result = "invalid"

\* C3: whenever a non-empty input is accepted, birthday is a calendar date
\* and gender is M or F.
C3_AcceptedHasDerived ==
    (call.field = "nid" /\ call.value # <<>> /\ call.result = "valid") =>
        /\ birthday.kind = "date"
        /\ gender \in {"F", "M"}

\* the rules whose condition holds for the last call's input
Matching(value) ==
    {k \in 1..NumRules : RuleMatches(k, NIDInum(value), NIDYear2(value))}

\* the try block rewritten as if/elif/elif/elif: only the first matching rule
\* is run
Chain(value) ==
    IF Matching(value) = {} THEN [raised |-> FALSE, birthday |-> None]
    ELSE TryRule(CHOOSE k \in Matching(value) :
                     \A j \in Matching(value) : k <= j,
                 value, None)

\* C10 as stated: for some individual number and two-digit year two rules
\* match and the later one overwrites the earlier one's birthday, so that the
\* if/elif chain would leave another birth year than a call of the field.
C10_SomeOverlap ==
    \E f \in [1..5 -> Digit] :
        LET value == <<"0", "1", "0", "1">> \o f \o <<"0", "0">>
        IN  /\ Cardinality(Matching(value)) >= 2
            /\ NOSocialSecurityNumber_clean(value, birthday, gender).birthday # Chain(value).birthday

\* C10 amended: for every individual number and two-digit year at most one
\* rule matches, and the birthday the call leaves is the one the if/elif
\* chain would leave.
C10_SequenceIsChain ==
    NIDCalled =>
        /\ Cardinality(Matching(call.value)) <= 1
        /\ Chain(call.value).raised = (~DatePassed)
        /\ birthday = Chain(call.value).birthday

\* C10 witness: the fourth rule assigned the birthday (individual number
\* 900-999, year2 above 39, born 19xx).
C10_Witness ==
    /\ NIDCalled
    /\ NIDInum(call.value) >= 900
    /\ NIDYear2(call.value) > 39
    /\ birthday.kind = "date"
    /\ birthday.year = 1900 + NIDYear2(call.value)

----------------------------------------------------------------------------
(* Properties of NOBankAccountField.clean *)

\* the input with its periods and spaces taken out
Stripped(raw) == SelectSeq(raw, LAMBDA c : c # "." /\ c # " ")

\* the last call was clean() of the bank field and the normalized value is
\* eleven digits
BankCalled ==
    /\ call.field = "bank"
    /\ Len(Stripped(call.value)) = 11
    /\ AllDigits(Stripped(call.value))

\* the first ten digits in reverse order times [2,3,4,5,6,7,2,3,4,5]
BankSum(v) ==
    LET w == <<2, 3, 4, 5, 6, 7, 2, 3, 4, 5>>
        RECURSIVE Go(_)
        Go(i) == IF i = 0 THEN 0 ELSE DigitVal(v[11 - i]) * w[i] + Go(i - 1)
    IN  Go(10)

BankCheckDigit(v) ==
    LET c == 11 - (BankSum(v) % 11)
    IN  IF c = 11 THEN 0 ELSE c

\* C4: an 11-digit normalized value is accepted exactly when its 11th digit
\* equals c = 11 - (s mod 11), 11 replaced by 0; with s mod 11 = 0 it is
\* accepted exactly when the last digit is 0.
C4_BankCheckDigit ==
    BankCalled =>
        LET v == Stripped(call.value)
        IN  /\ call.result = "valid" <=> DigitVal(v[11]) = BankCheckDigit(v)
            /\ BankSum(v) % 11 = 0 =>
                   (call.result = "valid" <=> v[11] = "0")

\* C4 witness: s mod 11 = 0, the last digit is 0 and the value was accepted.
C4_Witness ==
    /\ BankCalled
    /\ BankSum(Stripped(call.value)) % 11 = 0
    /\ Stripped(call.value)[11] = "0"
    /\ call.result = "valid"

Separators(raw) == Len(SelectSeq(raw, LAMBDA c : c = "." \/ c = " "))

\* C9: a raw input longer than 13 characters, or with more than two
\* period/space separators among its 11 digits, is rejected even when the
\* 11 digits carry a correct checksum.
C9_RawBounded ==
    (BankCalled /\ (Len(call.value) > 13 \/ Separators(call.value) > 2)) =>
        call.result = "invalid"

----------------------------------------------------------------------------
(* Properties of NOOrganisationNumberField.clean *)

OnlyDigits(raw) == SelectSeq(raw, LAMBDA c : c \in Digit)

\* the last call was clean() of the organisation field on an input of the
\* field's pattern
OrgCalled == call.field = "org" /\ OrgRegex(call.value)

\* 11 - ((3*d1+2*d2+7*d3+6*d4+5*d5+4*d6+3*d7+2*d8) mod 11)
OrgCheckValue(d) ==
    11 - ((3 * DigitVal(d[1]) + 2 * DigitVal(d[2]) + 7 * DigitVal(d[3])
           + 6 * DigitVal(d[4]) + 5 * DigitVal(d[5]) + 4 * DigitVal(d[6])
           + 3 * DigitVal(d[7]) + 2 * DigitVal(d[8])) % 11)

\* C5: a structurally valid input with digits d1..d9 is accepted exactly when
\* c # 10 and c = d9; with c = 10, and with c = 11 (weighted sum divisible by
\* 11, not folded to 0), it is rejected for every ninth digit.
C5_OrgCheckDigit ==
    OrgCalled =>
        LET d == OnlyDigits(call.value)
            c == OrgCheckValue(d)
        IN  /\ call.result = "valid" <=> (c # 10 /\ c = DigitVal(d[9]))
            /\ c \in {10, 11} => call.result = "invalid"

\* C5 witness: the weighted sum is divisible by 11, the ninth digit is 0 and
\* the input was rejected.
C5_Witness ==
    /\ OrgCalled
    /\ OrgCheckValue(OnlyDigits(call.value)) = 11
    /\ OnlyDigits(call.value)[9] = "0"
    /\ call.result = "invalid"

----------------------------------------------------------------------------
(* Properties of all fields *)

\* clean(value) of the named field, the identity field being in its current
\* state
Revalidated(name, value) ==
    CASE name = "nid" -> NOSocialSecurityNumber_clean(value, birthday, gender).out
      [] name = "zip" -> NOZipCodeField_clean(value)
      [] name = "phone" -> NOPhoneNumberField_clean(value)
      [] name = "bank" -> NOBankAccountField_clean(value)
      [] OTHER -> NOOrganisationNumberField_clean(value)

\* what precedes the first digit, the digits, and what follows the last digit
AsTyped(raw) ==
    LET digitAt == {i \in 1..Len(raw) : raw[i] \in Digit}
        first == CHOOSE i \in digitAt : \A j \in digitAt : i <= j
        last == CHOOSE i \in digitAt : \A j \in digitAt : j <= i
        tail == SubSeq(raw, last + 1, Len(raw))
    IN  SubSeq(raw, 1, first - 1) \o OnlyDigits(raw)
            \o SelectSeq(tail, LAMBDA c : c # "\n")

\* C6: an input accepted with canonical value c is accepted again when c is
\* validated, with the same c; for bank accounts c is the separator-stripped
\* 11 digits, for organisation numbers prefix + 9 digits + suffix as typed.
C6_Idempotent ==
    (call.field # "none" /\ call.result = "valid") =>
        /\ Revalidated(call.field, call.cleaned) = Outcome("valid", call.cleaned)
        /\ call.field = "bank" =>
               /\ call.cleaned = Stripped(call.value)
               /\ Len(call.cleaned) = 11 /\ AllDigits(call.cleaned)
        /\ call.field = "org" =>
               /\ call.cleaned = AsTyped(call.value)
               /\ Len(OnlyDigits(call.cleaned)) = 9

\* C6 witness: an organisation number typed with prefix, spaces and suffix
\* was accepted, its canonical value being another string than the input.
C6_Witness ==
    /\ call.field = "org"
    /\ call.result = "valid"
    /\ call.cleaned # call.value
    /\ call.cleaned[1] = "N"
    /\ Len(call.cleaned) = 16

\* what clean(value) leaves on a field nobody else uses
Own(value) == NOSocialSecurityNumber_clean(value, Unset, "unset")

\* C7: after any sequence of calls the attributes of the identity field
\* belong to the most recent call: those derived from its input when it was
\* accepted, absent when it had empty input or was rejected.
C7_NoStateKept ==
    call.field = "nid" =>
        IF call.result = "valid" /\ call.value # <<>>
        THEN birthday = Own(call.value).birthday /\ gender = Own(call.value).gender
        ELSE birthday.kind \in {"unset", "None"} /\ gender = "unset"

\* C8: with every thread calling clean() with a valid input of its own, the
\* attributes a thread reads after its call returned are the ones derived
\* from its own input.
C8_OwnAttributes ==
    (\A u \in Threads : Own(targ[u]).out.result = "valid") =>
        \A t \in Threads :
            pc[t] = "done" =>
                /\ obs[t].birthday = Own(targ[t]).birthday
                /\ obs[t].gender = Own(targ[t]).gender

====
